---- MODULE Spec2Model ----
(***************************************************************************)
(* State machine of the Index page component (src/pages/Index.tsx): the    *)
(* camera permission/stream life cycle, frame snapshot, mock translation   *)
(* and speech playback, together with the host facilities they talk to     *)
(* (getUserMedia, the video element, setTimeout, speechSynthesis).         *)
(*                                                                         *)
(* Text values are sequences of one-character strings.  Pitch and volume   *)
(* are in tenths, rate in hundredths.                                      *)
(***************************************************************************)
EXTENDS Integers, Sequences, FiniteSets, TLC

\* ---------------------------------------------------------------- bounds
MaxLen == 1              \* longest text typed next to snapshots and playback
MaxTextLen == 3          \* longest text typed in the text tab alone
MaxRequests == 3         \* getUserMedia calls issued in one behaviour
MaxUtterances == 3       \* utterances created in one behaviour
MaxSettingChanges == 1   \* updateTtsSetting calls in one behaviour

\* ------------------------------------------------------------- constants
Alphabet == {"a", " "}
Whitespace == {" "}

LANGUAGE_OPTIONS == {"en", "es", "fr", "de", "it"}
DefaultPitch == 10
DefaultRate == 75
DefaultVolume == 10
PitchMin == 5
PitchMax == 20
RateMin == 50
RateMax == 150

Placeholder == <<"H", "e", "l", "l", "o", "!", " ", "H", "o", "w", " ", "a", "r", "e", " ", "y", "o", "u", "?", " ", "(", "S", "a", "m", "p", "l", "e", " ", "S", "i", "g", "n", " ", "L", "a", "n", "g", "u", "a", "g", "e", " ", "T", "r", "a", "n", "s", "l", "a", "t", "i", "o", "n", ")">>
ErrorText == <<"E", "r", "r", "o", "r", " ", "i", "n", " ", "t", "r", "a", "n", "s", "l", "a", "t", "i", "o", "n">>

NoStream == 0            \* null in streamRef / srcObject
NoImage == "null"        \* null in capturedImage

\* values the user can type into the textarea
TextsUpTo(n) == UNION {[1..k -> Alphabet] : k \in 0..n}

\* an empty, a blank and a non-blank text
SampleTexts == {<<>>, <<" ">>, <<"a">>}

\* values the range sliders and the language buttons deliver
PitchInputs == {PitchMin, PitchMax}
RateInputs == {RateMin, RateMax}
SettingInputs ==
    {<<"language", l>> : l \in LANGUAGE_OPTIONS}
        \cup {<<"pitch", p>> : p \in PitchInputs}
        \cup {<<"rate", r>> : r \in RateInputs}

\* ----------------------------------------------------------------- state
VARIABLES
    mounted,              \* the component is mounted
    hasCameraPermission,
    translatedText,
    inputText,
    capturedImage,
    isProcessing,
    translateMode,
    ttsSettings,
    showSettings,
    isSpeaking,
    streamRef,            \* streamRef.current: a stream id or NoStream
    videoSrcObject,       \* srcObject of the mounted <video>, NoStream if none
    streams,              \* getUserMedia requests and the streams they gave
    utterances,           \* utterances handed to speechSynthesis
    delays,               \* pending 2000 ms timers of captureImage
    settingChanges,       \* updateTtsSetting calls so far
    speechAvailable,      \* 'speechSynthesis' in window
    last                  \* the handler that ran last

vars == <<mounted, hasCameraPermission, translatedText, inputText, capturedImage,
          isProcessing, translateMode, ttsSettings, showSettings, isSpeaking,
          streamRef, videoSrcObject, streams, utterances, delays,
          settingChanges, speechAvailable, last>>

uiVars == <<hasCameraPermission, translatedText, inputText, capturedImage,
            isProcessing, translateMode, ttsSettings, showSettings, isSpeaking>>

\* ------------------------------------------------------------- pure parts
RECURSIVE trimStart(_)
trimStart(s) ==
    IF s = <<>> THEN s
    ELSE IF Head(s) \in Whitespace THEN trimStart(Tail(s)) ELSE s

RECURSIVE trimEnd(_)
trimEnd(s) ==
    IF s = <<>> THEN s
    ELSE IF s[Len(s)] \in Whitespace THEN trimEnd(SubSeq(s, 1, Len(s) - 1)) ELSE s

\* String.prototype.trim
trim(s) == trimEnd(trimStart(s))

\* truthiness of a string
Truthy(s) == s # <<>>

\* the <video> and <canvas> are rendered (so videoRef.current and
\* canvasRef.current are set) only in the camera tab, with no captured image,
\* once permission is marked granted
VideoRendered(mode, image, permission) ==
    mode = "camera" /\ image = NoImage /\ permission

videoRefCurrent == mounted /\ VideoRendered(translateMode, capturedImage, hasCameraPermission)

NoRequest == [st |-> "none", by |-> "none", inCamera |-> FALSE]
NoUtterance == [st |-> "none", lang |-> "none", pitch |-> 0, rate |-> 0, volume |-> 0]
CancelledUtterance == [NoUtterance EXCEPT !.st = "cancelled"]
DoneUtterance == [NoUtterance EXCEPT !.st = "done"]

FreeRequests == {i \in DOMAIN streams : streams[i].st = "none"}
PendingRequests(by) == {i \in DOMAIN streams : streams[i].st = "pending" /\ streams[i].by = by}
ActiveStreams == {i \in DOMAIN streams : streams[i].st = "live"}

FreeUtterances == {i \in DOMAIN utterances : utterances[i].st = "none"}
\* utterances queued or being spoken by speechSynthesis
SynthQueue == {i \in DOMAIN utterances : utterances[i].st = "queued"}
\* utterances removed by cancel() whose end/error event is not delivered yet
CancelledUtterances == {i \in DOMAIN utterances : utterances[i].st = "cancelled"}
Min(S) == CHOOSE x \in S : \A y \in S : x <= y

\* navigator.mediaDevices.getUserMedia(...): a new pending request
getUserMedia(ss, by) ==
    LET i == Min({j \in DOMAIN ss : ss[j].st = "none"})
    IN  [ss EXCEPT ![i] = [st |-> "pending", by |-> by, inCamera |-> FALSE]]

\* streamRef.current.getTracks().forEach(track => track.stop())
stopTracks(ss, ref) ==
    [i \in DOMAIN ss |->
        IF i = ref /\ ss[i].st = "live" THEN [ss[i] EXCEPT !.st = "stopped"] ELSE ss[i]]

\* window.speechSynthesis.cancel(): every queued utterance is removed; its
\* end/error event reaches the page later
cancel(us) ==
    [i \in DOMAIN us |->
        IF us[i].st = "queued" THEN CancelledUtterance ELSE us[i]]

\* the cleanup function returned by the effect
cleanupStreams(ss, ref) == IF ref # NoStream THEN stopTracks(ss, ref) ELSE ss
\* variant: the cleanup leaves speech alone
cleanupSpeechNoCancel(us) == us

cleanupSpeech(us) == IF speechAvailable THEN cancel(us) ELSE us

\* ------------------------------------------------------------------ Init
Init ==
    /\ mounted = TRUE
    /\ hasCameraPermission = FALSE
    /\ translatedText = <<>>
    /\ inputText = <<>>
    /\ capturedImage = NoImage
    /\ isProcessing = FALSE
    /\ translateMode = "camera"
    /\ ttsSettings = [language |-> "en", pitch |-> DefaultPitch,
                      rate |-> DefaultRate, volume |-> DefaultVolume]
    /\ showSettings = FALSE
    /\ isSpeaking = FALSE
    /\ streamRef = NoStream
    /\ videoSrcObject = NoStream
    \* the effect runs after the first render: setupCamera() is in flight
    /\ streams = getUserMedia([i \in 1..MaxRequests |-> NoRequest], "setupCamera")
    /\ utterances = [i \in 1..MaxUtterances |-> NoUtterance]
    /\ delays = 0
    /\ settingChanges = 0
    /\ speechAvailable \in BOOLEAN
    /\ last = "mount"

\* a browser that has speechSynthesis
InitWithSpeech == Init /\ speechAvailable

\* ----------------------------------------------- Capture/Permission Manager
\* the body of the effect for the mode just rendered: setupCamera() is called
\* only in camera mode
effectBody(ss, mode) == IF mode = "camera" THEN getUserMedia(ss, "setupCamera") ELSE ss

\* click on the Camera / Text tab: re-render, cleanup of the previous effect,
\* then the effect for the new mode
setTranslateMode(m) ==
    /\ mounted
    /\ m # translateMode
    /\ m = "camera" => FreeRequests # {}
    /\ translateMode' = m
    /\ videoSrcObject' = NoStream
    /\ streams' = effectBody(cleanupStreams(streams, streamRef), m)
    /\ utterances' = cleanupSpeech(utterances)
    /\ last' = "setTranslateMode"
    /\ UNCHANGED <<mounted, hasCameraPermission, translatedText, inputText,
                   capturedImage, isProcessing, ttsSettings, showSettings,
                   isSpeaking, streamRef, delays, settingChanges, speechAvailable>>

\* the component is unmounted: the cleanup runs one last time
unmount ==
    /\ mounted
    /\ mounted' = FALSE
    /\ videoSrcObject' = NoStream
    /\ streams' = cleanupStreams(streams, streamRef)
    /\ utterances' = cleanupSpeech(utterances)
    /\ last' = "unmount"
    /\ UNCHANGED <<uiVars, streamRef, delays, settingChanges, speechAvailable>>

\* the stream a granted request delivers
granted(ss, i) ==
    [ss EXCEPT ![i] = [st |-> "live", by |-> "none",
                       inCamera |-> mounted /\ translateMode = "camera"]]
denied(ss, i) == [ss EXCEPT ![i] = [st |-> "denied", by |-> "none", inCamera |-> FALSE]]

\* setupCamera after its await: getUserMedia resolved with a stream
setupCameraGranted(i) ==
    /\ i \in PendingRequests("setupCamera")
    /\ streams' = granted(streams, i)
    /\ IF videoRefCurrent
         THEN videoSrcObject' = i /\ streamRef' = i
         ELSE UNCHANGED <<videoSrcObject, streamRef>>
    /\ hasCameraPermission' = IF mounted THEN TRUE ELSE hasCameraPermission
    /\ last' = "setupCameraGranted"
    /\ UNCHANGED <<mounted, translatedText, inputText, capturedImage, isProcessing,
                   translateMode, ttsSettings, showSettings, isSpeaking,
                   utterances, delays, settingChanges, speechAvailable>>

\* variant: the catch does not mark permission as not granted
setupCameraDeniedKeepsPermission(i) ==
    /\ i \in PendingRequests("setupCamera")
    /\ streams' = denied(streams, i)
    /\ last' = "setupCameraDenied"
    /\ UNCHANGED <<mounted, uiVars, streamRef, videoSrcObject, utterances, delays,
                   settingChanges, speechAvailable>>

\* setupCamera's catch: getUserMedia rejected
setupCameraDenied(i) ==
    /\ i \in PendingRequests("setupCamera")
    /\ streams' = denied(streams, i)
    /\ hasCameraPermission' = IF mounted THEN FALSE ELSE hasCameraPermission
    /\ videoSrcObject' = IF mounted THEN NoStream ELSE videoSrcObject
    /\ last' = "setupCameraDenied"
    /\ UNCHANGED <<mounted, translatedText, inputText, capturedImage, isProcessing,
                   translateMode, ttsSettings, showSettings, isSpeaking, streamRef,
                   utterances, delays, settingChanges, speechAvailable>>

\* the Enable Camera button is rendered in the camera tab while there is no
\* captured image and permission is not marked granted
EnableCameraShown ==
    mounted /\ translateMode = "camera" /\ capturedImage = NoImage /\ ~hasCameraPermission

\* click on Enable Camera: requestCameraPermission up to its await
requestCameraPermission ==
    /\ EnableCameraShown
    /\ FreeRequests # {}
    /\ streams' = getUserMedia(streams, "requestCameraPermission")
    /\ last' = "requestCameraPermission"
    /\ UNCHANGED <<mounted, uiVars, streamRef, videoSrcObject, utterances, delays,
                   settingChanges, speechAvailable>>

\* requestCameraPermission after its await: getUserMedia resolved
requestCameraPermissionGranted(i) ==
    /\ i \in PendingRequests("requestCameraPermission")
    /\ streams' = granted(streams, i)
    /\ IF videoRefCurrent
         THEN videoSrcObject' = i /\ streamRef' = i
         ELSE UNCHANGED <<videoSrcObject, streamRef>>
    /\ hasCameraPermission' = IF mounted THEN TRUE ELSE hasCameraPermission
    /\ last' = "requestCameraPermissionGranted"
    /\ UNCHANGED <<mounted, translatedText, inputText, capturedImage, isProcessing,
                   translateMode, ttsSettings, showSettings, isSpeaking,
                   utterances, delays, settingChanges, speechAvailable>>

\* requestCameraPermission's catch: console.error and alert, no state change
requestCameraPermissionDenied(i) ==
    /\ i \in PendingRequests("requestCameraPermission")
    /\ streams' = denied(streams, i)
    /\ last' = "requestCameraPermissionDenied"
    /\ UNCHANGED <<mounted, uiVars, streamRef, videoSrcObject, utterances, delays,
                   settingChanges, speechAvailable>>

\* ------------------------------------- Frame Snapshot / Mock Translation
\* variant: the capture button is not disabled while processing
CaptureEnabledWhileProcessing ==
    /\ mounted
    /\ VideoRendered(translateMode, capturedImage, hasCameraPermission)

\* the capture button is rendered next to the video and disabled while
\* processing
CaptureEnabled ==
    /\ mounted
    /\ VideoRendered(translateMode, capturedImage, hasCameraPermission)
    /\ ~isProcessing

\* canvas.toDataURL of the frame drawn from the video: the picture of the
\* stream it plays, or the empty image of a 0 x 0 canvas if it plays none
toDataURL(src) == IF src # NoStream THEN "frame" ELSE "blank"

\* click on the capture button: captureImage up to its await
captureImage ==
    /\ CaptureEnabled
    /\ IF videoRefCurrent
         THEN /\ capturedImage' = toDataURL(videoSrcObject)
              /\ videoSrcObject' = NoStream
              /\ isProcessing' = TRUE
              /\ delays' = delays + 1
         ELSE UNCHANGED <<capturedImage, videoSrcObject, isProcessing, delays>>
    /\ last' = "captureImage"
    /\ UNCHANGED <<mounted, hasCameraPermission, translatedText, inputText,
                   translateMode, ttsSettings, showSettings, isSpeaking, streamRef,
                   streams, utterances, settingChanges, speechAvailable>>

\* captureImage when drawing or encoding throws: the catch block
captureImageThrows ==
    /\ CaptureEnabled
    /\ translatedText' = ErrorText
    /\ isProcessing' = FALSE
    /\ last' = "captureImageThrows"
    /\ UNCHANGED <<mounted, hasCameraPermission, inputText, capturedImage,
                   translateMode, ttsSettings, showSettings, isSpeaking, streamRef,
                   videoSrcObject, streams, utterances, delays, settingChanges,
                   speechAvailable>>

\* variant: the processing flag is not cleared after the delay
translationDelayElapsedStillProcessing ==
    /\ delays > 0
    /\ delays' = delays - 1
    /\ translatedText' = IF mounted THEN Placeholder ELSE translatedText
    /\ last' = "translationDelayElapsed"
    /\ UNCHANGED <<mounted, hasCameraPermission, inputText, capturedImage,
                   isProcessing, translateMode, ttsSettings, showSettings,
                   isSpeaking, streamRef, videoSrcObject, streams, utterances,
                   settingChanges, speechAvailable>>

\* variant: the completion is dropped once camera mode has been left
translationDelayElapsedInCameraOnly ==
    /\ delays > 0
    /\ delays' = delays - 1
    /\ translatedText' = IF mounted /\ translateMode = "camera"
                            THEN Placeholder ELSE translatedText
    /\ isProcessing' = IF mounted /\ translateMode = "camera"
                          THEN FALSE ELSE isProcessing
    /\ last' = "translationDelayElapsed"
    /\ UNCHANGED <<mounted, hasCameraPermission, inputText, capturedImage,
                   translateMode, ttsSettings, showSettings, isSpeaking, streamRef,
                   videoSrcObject, streams, utterances, settingChanges,
                   speechAvailable>>

\* captureImage after its await: the 2000 ms timer fired
translationDelayElapsed ==
    /\ delays > 0
    /\ delays' = delays - 1
    /\ translatedText' = IF mounted THEN Placeholder ELSE translatedText
    /\ isProcessing' = IF mounted THEN FALSE ELSE isProcessing
    /\ last' = "translationDelayElapsed"
    /\ UNCHANGED <<mounted, hasCameraPermission, inputText, capturedImage,
                   translateMode, ttsSettings, showSettings, isSpeaking, streamRef,
                   videoSrcObject, streams, utterances, settingChanges,
                   speechAvailable>>

\* the discard (X) button on the captured image: setCapturedImage(null)
DiscardShown == mounted /\ translateMode = "camera" /\ capturedImage # NoImage

discardImage ==
    /\ DiscardShown
    /\ capturedImage' = NoImage
    /\ videoSrcObject' = NoStream
    /\ last' = "discardImage"
    /\ UNCHANGED <<mounted, hasCameraPermission, translatedText, inputText,
                   isProcessing, translateMode, ttsSettings, showSettings,
                   isSpeaking, streamRef, streams, utterances, delays,
                   settingChanges, speechAvailable>>

\* the output card's controls are rendered while there is a result
ResultShown == mounted /\ Truthy(translatedText)

\* variant: reset forgets the captured image
resetTranslationKeepsImage ==
    /\ ResultShown
    /\ translatedText' = <<>>
    /\ inputText' = <<>>
    /\ last' = "resetTranslation"
    /\ UNCHANGED <<mounted, hasCameraPermission, capturedImage, isProcessing,
                   translateMode, ttsSettings, showSettings, isSpeaking, streamRef,
                   videoSrcObject, streams, utterances, delays, settingChanges,
                   speechAvailable>>

resetTranslation ==
    /\ ResultShown
    /\ translatedText' = <<>>
    /\ inputText' = <<>>
    /\ capturedImage' = NoImage
    /\ videoSrcObject' = IF capturedImage = NoImage THEN videoSrcObject ELSE NoStream
    /\ last' = "resetTranslation"
    /\ UNCHANGED <<mounted, hasCameraPermission, isProcessing, translateMode,
                   ttsSettings, showSettings, isSpeaking, streamRef, streams,
                   utterances, delays, settingChanges, speechAvailable>>

\* typing in the textarea of the text tab: setInputText(e.target.value)
setInputText(s) ==
    /\ mounted
    /\ translateMode = "text"
    /\ s # inputText
    /\ inputText' = s
    /\ last' = "setInputText"
    /\ UNCHANGED <<mounted, hasCameraPermission, translatedText, capturedImage,
                   isProcessing, translateMode, ttsSettings, showSettings,
                   isSpeaking, streamRef, videoSrcObject, streams, utterances,
                   delays, settingChanges, speechAvailable>>

\* variant: the result is the trimmed input
textTranslationTrimmed(input, result) == IF Truthy(trim(input)) THEN trim(input) ELSE result

\* variant: the guard tests the input without trimming it
textTranslationNoTrim(input, result) == IF Truthy(input) THEN input ELSE result

\* what Process Text leaves in translatedText
textTranslation(input, result) == IF Truthy(trim(input)) THEN input ELSE result

\* click on Process Text
handleTextTranslation ==
    /\ mounted
    /\ translateMode = "text"
    /\ translatedText' = textTranslation(inputText, translatedText)
    /\ last' = "handleTextTranslation"
    /\ UNCHANGED <<mounted, hasCameraPermission, inputText, capturedImage,
                   isProcessing, translateMode, ttsSettings, showSettings,
                   isSpeaking, streamRef, videoSrcObject, streams, utterances,
                   delays, settingChanges, speechAvailable>>

\* -------------------------------------------------- Speech Playback Manager
\* new SpeechSynthesisUtterance(...) with the current settings, handed to
\* window.speechSynthesis.speak: it joins the queue
\* an utterance left at the facility's default parameters
speakWithDefaults(us, settings) ==
    LET i == Min({j \in DOMAIN us : us[j].st = "none"})
    IN  [us EXCEPT ![i] = [st |-> "queued", lang |-> "en",
                           pitch |-> DefaultPitch, rate |-> DefaultRate,
                           volume |-> DefaultVolume]]

speak(us, settings) ==
    LET i == Min({j \in DOMAIN us : us[j].st = "none"})
    IN  [us EXCEPT ![i] = [st |-> "queued", lang |-> settings.language,
                           pitch |-> settings.pitch, rate |-> settings.rate,
                           volume |-> settings.volume]]

\* the speaker button calls speakText while isSpeaking is false
speakText ==
    /\ ResultShown
    /\ ~isSpeaking
    /\ speechAvailable => FreeUtterances # {}
    /\ IF ~Truthy(translatedText) \/ ~speechAvailable
         THEN UNCHANGED <<isSpeaking, utterances>>
         ELSE /\ isSpeaking' = TRUE
              /\ utterances' = speak(utterances, ttsSettings)
    /\ last' = "speakText"
    /\ UNCHANGED <<mounted, hasCameraPermission, translatedText, inputText,
                   capturedImage, isProcessing, translateMode, ttsSettings,
                   showSettings, streamRef, videoSrcObject, streams, delays,
                   settingChanges, speechAvailable>>

\* the speaker button calls stopSpeaking while isSpeaking is true
stopSpeaking ==
    /\ ResultShown
    /\ isSpeaking
    /\ utterances' = IF speechAvailable THEN cancel(utterances) ELSE utterances
    /\ isSpeaking' = FALSE
    /\ last' = "stopSpeaking"
    /\ UNCHANGED <<mounted, hasCameraPermission, translatedText, inputText,
                   capturedImage, isProcessing, translateMode, ttsSettings,
                   showSettings, streamRef, videoSrcObject, streams, delays,
                   settingChanges, speechAvailable>>

\* the utterance at the head of the queue is spoken to its end: onend
utteranceEnd ==
    /\ SynthQueue # {}
    /\ utterances' = [utterances EXCEPT ![Min(SynthQueue)] = DoneUtterance]
    /\ isSpeaking' = IF mounted THEN FALSE ELSE isSpeaking
    /\ last' = "utteranceEnd"
    /\ UNCHANGED <<mounted, hasCameraPermission, translatedText, inputText,
                   capturedImage, isProcessing, translateMode, ttsSettings,
                   showSettings, streamRef, videoSrcObject, streams, delays,
                   settingChanges, speechAvailable>>

\* synthesis of the utterance at the head of the queue fails: onerror
utteranceError ==
    /\ SynthQueue # {}
    /\ utterances' = [utterances EXCEPT ![Min(SynthQueue)] = DoneUtterance]
    /\ isSpeaking' = IF mounted THEN FALSE ELSE isSpeaking
    /\ last' = "utteranceError"
    /\ UNCHANGED <<mounted, hasCameraPermission, translatedText, inputText,
                   capturedImage, isProcessing, translateMode, ttsSettings,
                   showSettings, streamRef, videoSrcObject, streams, delays,
                   settingChanges, speechAvailable>>

\* the end/error event of an utterance removed by cancel() is delivered
cancelledUtteranceEvent(i) ==
    /\ i \in CancelledUtterances
    /\ utterances' = [utterances EXCEPT ![i] = DoneUtterance]
    /\ isSpeaking' = IF mounted THEN FALSE ELSE isSpeaking
    /\ last' = "cancelledUtteranceEvent"
    /\ UNCHANGED <<mounted, hasCameraPermission, translatedText, inputText,
                   capturedImage, isProcessing, translateMode, ttsSettings,
                   showSettings, streamRef, videoSrcObject, streams, delays,
                   settingChanges, speechAvailable>>

toggleSettings ==
    /\ ResultShown
    /\ showSettings' = ~showSettings
    /\ last' = "toggleSettings"
    /\ UNCHANGED <<mounted, hasCameraPermission, translatedText, inputText,
                   capturedImage, isProcessing, translateMode, ttsSettings,
                   isSpeaking, streamRef, videoSrcObject, streams, utterances,
                   delays, settingChanges, speechAvailable>>

\* the update without the spread of the previous settings
updateTtsSettingNoSpread(key, value) ==
    /\ ResultShown
    /\ showSettings
    /\ settingChanges < MaxSettingChanges
    /\ settingChanges' = settingChanges + 1
    /\ ttsSettings' = [[language |-> "undefined", pitch |-> -1, rate |-> -1,
                        volume |-> -1] EXCEPT ![key] = value]
    /\ last' = "updateTtsSetting"
    /\ UNCHANGED <<mounted, hasCameraPermission, translatedText, inputText,
                   capturedImage, isProcessing, translateMode, showSettings,
                   isSpeaking, streamRef, videoSrcObject, streams, utterances,
                   delays, speechAvailable>>

\* a language button or a slider of the settings panel
updateTtsSetting(key, value) ==
    /\ ResultShown
    /\ showSettings
    /\ settingChanges < MaxSettingChanges
    /\ settingChanges' = settingChanges + 1
    /\ ttsSettings' = [ttsSettings EXCEPT ![key] = value]
    /\ last' = "updateTtsSetting"
    /\ UNCHANGED <<mounted, hasCameraPermission, translatedText, inputText,
                   capturedImage, isProcessing, translateMode, showSettings,
                   isSpeaking, streamRef, videoSrcObject, streams, utterances,
                   delays, speechAvailable>>

\* ---------------------------------------------------------- specification
ModeActs == \E m \in {"camera", "text"} : setTranslateMode(m)

CameraActs ==
    \/ \E i \in 1..MaxRequests : setupCameraGranted(i)
    \/ \E i \in 1..MaxRequests : setupCameraDenied(i)
    \/ requestCameraPermission
    \/ \E i \in 1..MaxRequests : requestCameraPermissionGranted(i)
    \/ \E i \in 1..MaxRequests : requestCameraPermissionDenied(i)

CaptureActs ==
    \/ captureImage
    \/ captureImageThrows
    \/ translationDelayElapsed
    \/ discardImage

ResultActs(texts) ==
    \/ resetTranslation
    \/ \E s \in texts : setInputText(s)
    \/ handleTextTranslation

SpeechActs ==
    \/ speakText
    \/ stopSpeaking
    \/ utteranceEnd
    \/ utteranceError
    \/ \E i \in 1..MaxUtterances : cancelledUtteranceEvent(i)

SettingsActs ==
    \/ toggleSettings
    \/ \E kv \in SettingInputs : updateTtsSetting(kv[1], kv[2])

\* The handlers fall into groups that share little state.  Each specification
\* below runs every handler that reads or writes the state its properties are
\* about; the handlers it leaves out write none of that state.

\* camera, snapshot and mock translation: the speech and settings handlers
\* write only isSpeaking, utterances, ttsSettings, showSettings, settingChanges
CameraNext == ModeActs \/ unmount \/ CameraActs \/ CaptureActs \/ ResultActs(SampleTexts)
CameraSpec == InitWithSpeech /\ [][CameraNext]_vars

\* the timer of a pending delay fires
FairCameraSpec == CameraSpec /\ WF_vars(translationDelayElapsed)

\* speech playback and its settings: the result text comes from the text tab
SpeechNext == ModeActs \/ unmount \/ ResultActs(SampleTexts) \/ SpeechActs \/ SettingsActs
SpeechSpec == Init /\ [][SpeechNext]_vars

\* speech playback with the settings left at their defaults, and the end/error
\* event of every cancelled utterance is delivered
PlaybackNext == ModeActs \/ unmount \/ ResultActs(SampleTexts) \/ SpeechActs
PlaybackSpec == Init /\ [][PlaybackNext]_vars
FairPlaybackSpec ==
    PlaybackSpec /\ \A i \in 1..MaxUtterances : WF_vars(cancelledUtteranceEvent(i))

\* the text tab alone, with longer texts
TextNext == ModeActs \/ ResultActs(TextsUpTo(MaxTextLen))
TextSpec == InitWithSpeech /\ [][TextNext]_vars

\* text submission next to snapshots and playback, which supply the other
\* state a submission could touch (the camera always grants here)
SubmitNext ==
    \/ ModeActs
    \/ ResultActs(TextsUpTo(MaxLen))
    \/ \E i \in 1..MaxRequests : setupCameraGranted(i)
    \/ captureImage
    \/ translationDelayElapsed
    \/ speakText
    \/ utteranceEnd
    \/ \E i \in 1..MaxUtterances : cancelledUtteranceEvent(i)
SubmitSpec == InitWithSpeech /\ [][SubmitNext]_vars

\* the settings panel next to snapshots, text submission and the speaker
\* button (only the camera request made at mount is answered here, and no
\* utterance event arrives)
SettingsNext ==
    \/ ModeActs
    \/ ResultActs(SampleTexts)
    \/ setupCameraGranted(1)
    \/ captureImage
    \/ translationDelayElapsed
    \/ speakText
    \/ stopSpeaking
    \/ SettingsActs
SettingsSpec == InitWithSpeech /\ [][SettingsNext]_vars

\* every handler together
Next == ModeActs \/ unmount \/ CameraActs \/ CaptureActs \/ ResultActs(TextsUpTo(MaxTextLen))
            \/ SpeechActs \/ SettingsActs
Spec == Init /\ [][Next]_vars

\* ------------------------------------------------------------- properties

\* C1: once the switch to text mode is processed, every stream that was
\* granted while in camera mode has its tracks stopped.
C1_CameraStreamsReleasedInTextMode ==
    translateMode = "text" =>
        \A i \in DOMAIN streams : streams[i].inCamera => streams[i].st # "live"

\* C2: at most one granted stream has tracks that are not stopped.
C2_AtMostOneActiveStream == Cardinality(ActiveStreams) <= 1

\* C3: when a camera request succeeds in camera mode, permission is granted
\* and the granted stream is the source of the preview and the stream
\* recorded in streamRef.
C3_GrantBindsStream ==
    [][\A i \in 1..MaxRequests :
          ( /\ setupCameraGranted(i) \/ requestCameraPermissionGranted(i)
            /\ mounted
            /\ translateMode = "camera" )
          => (hasCameraPermission' /\ videoSrcObject' = i /\ streamRef' = i)]_vars

\* C4: at most one utterance is queued or being spoken.
C4_AtMostOneUtterance == Cardinality(SynthQueue) <= 1

\* C5 as stated: after submitting an input whose trimmed form is non-empty
\* the result is the trimmed input.
C5_SubmitYieldsTrimmedInput ==
    (last = "handleTextTranslation" /\ Truthy(trim(inputText)))
        => translatedText = trim(inputText)

\* C5 as amended: after submitting an input whose trimmed form is non-empty
\* the result is the input as typed, surrounding whitespace included.
C5_SubmitYieldsInputVerbatim ==
    (last = "handleTextTranslation" /\ Truthy(trim(inputText)))
        => translatedText = inputText

\* a submitted input with surrounding whitespace
C5_Witness ==
    /\ last = "handleTextTranslation"
    /\ Truthy(trim(inputText))
    /\ trim(inputText) # inputText
    /\ translatedText = inputText

\* C6: submitting an empty or whitespace-only text leaves the result, the
\* typed text, the captured image, the processing flag and the speaking flag
\* as they were.
C6_BlankSubmitChangesNothing ==
    [][(handleTextTranslation /\ ~Truthy(trim(inputText)))
          => UNCHANGED <<translatedText, inputText, capturedImage, isProcessing,
                         isSpeaking>>]_vars

\* a whitespace-only text was submitted over an earlier result, with a
\* captured image, while processing and speaking
C6_Witness ==
    /\ last = "handleTextTranslation"
    /\ inputText # <<>>
    /\ ~Truthy(trim(inputText))
    /\ Truthy(translatedText)
    /\ capturedImage # NoImage
    /\ isProcessing
    /\ isSpeaking

\* C7: after a snapshot the captured image is set and the preview is hidden;
\* after discard the captured image is null and, with permission granted and
\* the recorded stream still active, the preview is shown and plays it.
C7_SnapshotHidesDiscardResumes ==
    /\ last = "captureImage" => (capturedImage # NoImage /\ ~videoRefCurrent)
    /\ last = "discardImage" => capturedImage = NoImage
    /\ ( /\ last = "discardImage"
         /\ hasCameraPermission
         /\ streamRef # NoStream
         /\ streams[IF streamRef = NoStream THEN 1 ELSE streamRef].st = "live" )
       => (videoRefCurrent /\ videoSrcObject = streamRef)

\* C8: at most one simulated translation delay is pending.
C8_AtMostOneDelay == delays <= 1

\* the capture button is shown again (the image was discarded or reset) while
\* the delay of the last capture is pending
C8_Witness == videoRefCurrent /\ isProcessing /\ delays = 1

\* C9: right after reset the result is empty, the typed text is empty and the
\* captured image is null.
C9_ResetClearsAll ==
    last = "resetTranslation"
        => (translatedText = <<>> /\ inputText = <<>> /\ capturedImage = NoImage)

\* a reset while the delay of a capture is pending
C9_Witness == last = "resetTranslation" /\ isProcessing /\ delays = 1

\* C10: a capture enters the processing state; the flag is true while the
\* delay is pending; when the delay completes the flag is false and the result
\* is the placeholder (the error text if the step failed); and every
\* processing state of the mounted component ends.
C10_ProcessingEnds ==
    /\ [](last = "captureImage" => (isProcessing /\ delays > 0))
    /\ []((mounted /\ delays > 0) => isProcessing)
    /\ []((mounted /\ last = "translationDelayElapsed")
            => (~isProcessing /\ translatedText = Placeholder))
    /\ [](last = "captureImageThrows" => (~isProcessing /\ translatedText = ErrorText))
    /\ ((mounted /\ isProcessing) ~> (~isProcessing \/ ~mounted))

\* the delay of a capture completed
C10_Witness ==
    /\ mounted
    /\ last = "translationDelayElapsed"
    /\ ~isProcessing
    /\ translatedText = Placeholder
    /\ capturedImage # NoImage

C12_SwitchCancelsSpeech ==
    /\ [](last \in {"setTranslateMode", "unmount"} => SynthQueue = {})
    /\ ((mounted /\ last = "setTranslateMode") ~> (~isSpeaking \/ ~mounted))

\* a mode switch has just cancelled the utterance in flight
C12_Witness ==
    /\ last = "setTranslateMode"
    /\ isSpeaking
    /\ SynthQueue = {}
    /\ CancelledUtterances # {}

\* C13: the speech settings start as (en, 1.0, 0.75, 1.0), stay inside the
\* language list and the slider ranges in every reachable state, and are
\* changed by no handler other than updateTtsSetting.
C13_SettingsValidAndPersist ==
    /\ ttsSettings = [language |-> "en", pitch |-> 10, rate |-> 75, volume |-> 10]
    /\ [](/\ ttsSettings.language \in {"en", "es", "fr", "de", "it"}
          /\ ttsSettings.pitch \in 5..20
          /\ ttsSettings.rate \in 50..150
          /\ ttsSettings.volume \in 0..10)
    /\ [][ttsSettings' # ttsSettings => last' = "updateTtsSetting"]_vars

\* a changed pitch is still in place after a later snapshot was translated
C13_Witness ==
    /\ last = "translationDelayElapsed"
    /\ ttsSettings.pitch = PitchMax
    /\ translatedText = Placeholder
    /\ settingChanges = 1

\* C14: an utterance is created with the settings in force when playback is
\* started, a settings change leaves every utterance as it is, and a queued
\* utterance keeps its parameters for as long as it is queued.
C14_SettingsApplyAtNextStart ==
    [][ /\ (last' = "speakText" /\ utterances' # utterances)
            => \E i \in FreeUtterances :
                  /\ utterances'[i] = [st |-> "queued",
                                       lang |-> ttsSettings.language,
                                       pitch |-> ttsSettings.pitch,
                                       rate |-> ttsSettings.rate,
                                       volume |-> ttsSettings.volume]
                  /\ \A j \in DOMAIN utterances \ {i} : utterances'[j] = utterances[j]
        /\ last' = "updateTtsSetting" => utterances' = utterances
        /\ \A i \in SynthQueue : i \in SynthQueue' => utterances'[i] = utterances[i]
      ]_vars

\* a setting was changed while an utterance is in flight, which keeps the
\* value it was started with
C14_Witness ==
    /\ last = "updateTtsSetting"
    /\ isSpeaking
    /\ \E i \in SynthQueue :
          <<utterances[i].lang, utterances[i].pitch, utterances[i].rate>>
              # <<ttsSettings.language, ttsSettings.pitch, ttsSettings.rate>>

\* C15: a capture attempt made while there is no active live preview (no
\* video/canvas element, or a video element that plays no live stream) leaves
\* the captured image, the processing flag, the pending delays and the
\* translation result as they were.
C15_CaptureNeedsLivePreview ==
    [][ (last' = "captureImage" /\ ~(videoRefCurrent /\ videoSrcObject \in ActiveStreams))
            => UNCHANGED <<capturedImage, isProcessing, delays, translatedText>> ]_vars

\* C16: in text mode with no camera request pending, no stream that was
\* granted after camera mode had been left is still active.
C16_NoLeakFromPendingRequest ==
    (/\ translateMode = "text"
     /\ PendingRequests("setupCamera") = {}
     /\ PendingRequests("requestCameraPermission") = {})
        => \A i \in ActiveStreams : streams[i].inCamera

\* C17: a mode switch leaves a pending delay pending; a delay pending in text
\* mode does complete; and its completion sets the result to the placeholder
\* and clears the processing flag whatever the mode and whatever result a
\* text submission had produced.
C17_DelaySurvivesModeSwitch ==
    /\ [][last' = "setTranslateMode" => delays' = delays]_vars
    /\ [][(mounted /\ delays > 0 /\ delays' < delays)
            => (translatedText' = Placeholder /\ ~isProcessing')]_vars
    /\ ((mounted /\ translateMode = "text" /\ delays > 0)
            ~> (~mounted \/ (last = "translationDelayElapsed"
                                /\ translatedText = Placeholder /\ ~isProcessing)))

\* the delay of a snapshot completed in text mode, with a text typed there
C17_Witness ==
    /\ mounted
    /\ last = "translationDelayElapsed"
    /\ translateMode = "text"
    /\ inputText = <<"a">>
    /\ translatedText = Placeholder
    /\ ~isProcessing

\* C18: the completion of a delay that was pending when reset was invoked,
\* arriving before any new capture or text submission, leaves the result
\* empty.
C18_ResetStaysEmpty ==
    [][(mounted /\ last = "resetTranslation" /\ last' = "translationDelayElapsed")
            => translatedText' = <<>>]_vars

\* C19: whenever the speaking flag of the mounted component is false, no
\* utterance is queued or being spoken.
C19_FlagAgreesWithFacility == (mounted /\ ~isSpeaking) => SynthQueue = {}

====
